---- MODULE Spec2Model ----
(***************************************************************************)
(* Slotify AI microservice: the /predict triage scorer and the             *)
(* /analyze-report OCR pipeline (ai_service/app.py), with the image        *)
(* preprocessor (ai_service/utils/ocr.py).                                 *)
(*                                                                         *)
(* Numbers.  A Python float is a record [k, v]: k = "fin" carries the      *)
(* value v in units of 1/Scale (Scale = 300, so hundredths are multiples   *)
(* of 3 and no grid value lies exactly half way between two hundredths),   *)
(* k = "nan" / "inf" / "ninf" are the IEEE specials.  k = "obj" is a       *)
(* Python object float() rejects, k = "exc" an exception in flight and     *)
(* k = "none" an unset local.  A Python int is a record [huge, v]: huge    *)
(* marks an int whose magnitude is beyond the double range (Python ints    *)
(* are unbounded; int -> float conversion of such a value raises           *)
(* OverflowError).                                                         *)
(***************************************************************************)
EXTENDS Integers, Naturals, Sequences, FiniteSets, TLC

VARIABLES
    model,      \* the module-level model object: "None" or "loaded"
    op,         \* which entry point the current request is in
    req,        \* predict: the request's vital signs and what the model does on it
    raw,        \* predict: local raw after lines 51-54
    score,      \* predict: local score, before rounding
    presp,      \* predict: the response
    pc,         \* position of the current request
    img,        \* analyze_report: local img; preprocess_image: its argument
    processed,  \* analyze_report: local processed; preprocess_image: its result
    ppok,       \* preprocess_image called directly: "returned" or "raised"
    text,       \* analyze_report: local text
    calls,      \* the library calls the current request has made, in order
    aresp       \* analyze_report: the response

vars == <<model, op, req, raw, score, presp, pc, img, processed, ppok, text, calls, aresp>>

----------------------------------------------------------------------------
(* Number representation *)

Hundredths == 100
Scale == 3 * Hundredths

Fin(n) == [k |-> "fin", v |-> n]
NaN == [k |-> "nan", v |-> 0]
PosInf == [k |-> "inf", v |-> 0]
NegInf == [k |-> "ninf", v |-> 0]
NonNumeric == [k |-> "obj", v |-> 0]
Raised == [k |-> "exc", v |-> 0]
Unset == [k |-> "none", v |-> 0]

IsFloat(x) == x.k \in {"fin", "nan", "inf", "ninf"}

Small(n) == [huge |-> FALSE, v |-> n]
HugeInt == [huge |-> TRUE, v |-> 1]
NegHugeInt == [huge |-> TRUE, v |-> -1]

\* a < b on floats: every comparison with NaN is false
FloatLt(a, b) ==
    IF a.k = "nan" \/ b.k = "nan" THEN FALSE
    ELSE IF a.k = "ninf" THEN b.k # "ninf"
    ELSE IF a.k = "inf" THEN FALSE
    ELSE IF b.k = "inf" THEN TRUE
    ELSE IF b.k = "ninf" THEN FALSE
    ELSE a.v < b.v

\* a + b on floats (IEEE: inf + -inf = nan)
FloatAdd(a, b) ==
    IF a.k = "exc" \/ b.k = "exc" THEN Raised
    ELSE IF a.k = "nan" \/ b.k = "nan" THEN NaN
    ELSE IF a.k = "fin" /\ b.k = "fin" THEN Fin(a.v + b.v)
    ELSE IF a.k = "fin" THEN b
    ELSE IF b.k = "fin" THEN a
    ELSE IF a.k = b.k THEN a
    ELSE NaN

FloatNeg(a) ==
    IF a.k = "fin" THEN Fin(-a.v)
    ELSE IF a.k = "inf" THEN NegInf
    ELSE IF a.k = "ninf" THEN PosInf
    ELSE a

\* int -> float conversion: OverflowError beyond the double range
IntToFloat(n) == IF n.huge THEN Raised ELSE Fin(n.v * Scale)

\* heart_rate / 2: true division of an int, OverflowError when the quotient
\* does not fit a double
IntHalf(n) == IF n.huge THEN Raised ELSE Fin((n.v * Scale) \div 2)

\* temperature * 10: a temperature is held in units of 1/TempScale, ten times
\* finer than the other floats, and the product comes out in units of 1/Scale
TempScale == 10 * Scale
TimesTen(t) == IF t.k = "fin" THEN Fin((t.v * 10) \div (TempScale \div Scale)) ELSE t

\* 100 - oxygen_saturation on Python ints (exact, unbounded)
IntFrom100(n) == IF n.huge THEN (IF n.v > 0 THEN NegHugeInt ELSE HugeInt) ELSE Small(100 - n.v)

\* float - int: the int operand is converted to float first
FloatMinusInt(a, n) == FloatAdd(a, FloatNeg(IntToFloat(n)))

\* float(x): floats pass unchanged, other objects raise ValueError/TypeError
PyFloat(x) == IF IsFloat(x) THEN x ELSE Raised

----------------------------------------------------------------------------
(* predict *)

\* line 47
HeuristicRaw(hr, t, ox) ==
    PyFloat(FloatMinusInt(FloatAdd(IntHalf(hr), TimesTen(t)), IntFrom100(ox)))

\* variant: the except branch yields 0.0 instead of the heuristic
FallbackZero(hr, t, ox) == Fin(0)

\* line 44
FallbackRaw(hr, t, ox) ==
    PyFloat(FloatMinusInt(FloatAdd(IntHalf(hr), TimesTen(t)), IntFrom100(ox)))

\* variant: the model output is taken without float(), so that only the
\* prediction call itself is guarded
ModelRawUnconverted(mout, hr, t, ox) ==
    IF mout.k = "exc" THEN FallbackRaw(hr, t, ox) ELSE mout

\* lines 40-44: the try covers both model.predict and float()
ModelRaw(mout, hr, t, ox) ==
    IF PyFloat(mout).k = "exc" THEN FallbackRaw(hr, t, ox) ELSE PyFloat(mout)

\* lines 51-54
CoerceRaw(r) == IF PyFloat(r).k = "exc" THEN Fin(0) ELSE PyFloat(r)

\* Python min(a, b) / max(a, b): the first argument unless the second beats it
PyMin(a, b) == IF FloatLt(b, a) THEN b ELSE a
PyMax(a, b) == IF FloatLt(a, b) THEN b ELSE a

\* variant: the upper bound alone
ClampNoFloor(r) == PyMin(Fin(100 * Scale), r)

\* line 57
Clamp(r) == PyMax(Fin(0), PyMin(Fin(100 * Scale), r))

CriticalMin == 80
UrgentMin == 60
LessUrgentMin == 40

FloatGeInt(s, n) == s.k \notin {"nan"} /\ ~FloatLt(s, Fin(n * Scale))

\* variant: strict comparisons
CategorizeStrict(s) ==
    IF FloatLt(Fin(CriticalMin * Scale), s) THEN "Critical"
    ELSE IF FloatLt(Fin(UrgentMin * Scale), s) THEN "Urgent"
    ELSE IF FloatLt(Fin(LessUrgentMin * Scale), s) THEN "Less-Urgent"
    ELSE "Non-Urgent"

\* lines 65-72
Categorize(s) ==
    IF FloatGeInt(s, CriticalMin) THEN "Critical"
    ELSE IF FloatGeInt(s, UrgentMin) THEN "Urgent"
    ELSE IF FloatGeInt(s, LessUrgentMin) THEN "Less-Urgent"
    ELSE "Non-Urgent"

\* round(score, 2) of a finite non-negative score, in hundredths
Round2(s) == (s.v + 1) \div (Scale \div Hundredths)

NoResponse == [status |-> "none", score |-> 0, category |-> ""]
Aborted == [status |-> "error", score |-> 0, category |-> ""]

\* the whole handler, lines 39-74, as a function of the loaded model, what the
\* model does on this request, and the three vital signs
predict(m, mout, hr, t, ox) ==
    LET r1 == IF m # "None" THEN ModelRaw(mout, hr, t, ox) ELSE HeuristicRaw(hr, t, ox)
    IN IF r1.k = "exc"
       THEN [raw |-> r1, score |-> Unset, resp |-> Aborted]
       ELSE LET r2 == CoerceRaw(r1)
                s == Clamp(r2)
            IN [raw |-> r2, score |-> s,
                resp |-> [status |-> "ok", score |-> Round2(s), category |-> Categorize(s)]]

----------------------------------------------------------------------------
(* Inputs *)

HeartRates == {Small(0), Small(80), Small(500), Small(-300), HugeInt}

Temperatures ==
    {Fin(0), Fin(37 * TempScale), Fin(1000 * TempScale), Fin(18 * TempScale),
     Fin(18 * TempScale - 1), Fin(14 * TempScale - 3), Fin(-5 * TempScale),
     NaN, PosInf, NegInf}

Oxygens == {Small(0), Small(98), Small(100), HugeInt}

ModelValues ==
    {-Scale, 0, 40 * Scale - 3, 40 * Scale - 1, 40 * Scale, 60 * Scale - 3,
     60 * Scale - 1, 60 * Scale, 80 * Scale - 3, 80 * Scale - 1, 80 * Scale,
     100 * Scale, 100 * Scale + 1, 150 * Scale}

ModelOutcomes ==
    {Raised, NonNumeric, NaN, PosInf, NegInf} \cup {Fin(n) : n \in ModelValues}

NoRequest == [hr |-> Small(0), t |-> Fin(0), ox |-> Small(0), mout |-> Unset]

NoImage == [w |-> 0, h |-> 0, ch |-> 0]

----------------------------------------------------------------------------
(* preprocess_image *)

MinWidth == 1000
MaxWidth == 1002
MaxHeight == 2

\* digits kept of the scale factor 1000.0 / w: a fixed-point stand-in for the
\* double, truncated, so its error (below 1/ScalePrec) is far above the
\* double's rounding error
ScalePrec == 100000

Images == [w : 1..MaxWidth, h : 1..MaxHeight, ch : 1..4]

\* what cv2.imdecode(..., IMREAD_COLOR) yields: None, or a 3-channel image
DecodedImages ==
    {NoImage} \cup [w : {1, MinWidth - 1, MinWidth, MaxWidth}, h : {1, MaxHeight}, ch : {3}]

\* cv2.cvtColor(image, COLOR_BGR2GRAY) raises unless the input has 3 or 4 channels
CvtColorFails(image) == image = NoImage \/ image.ch \notin {3, 4}

\* lines 13-17
ToGray(image) == IF CvtColorFails(image) THEN image ELSE [image EXCEPT !.ch = 1]

\* variant: truncation instead of rounding
CvTrunc(num, den) == num \div den

\* cvRound: nearest integer, ties to even (num >= 0, den > 0)
CvRound(num, den) ==
    LET q == num \div den
        r == num % den
    IN IF 2 * r < den THEN q
       ELSE IF 2 * r > den THEN q + 1
       ELSE IF q % 2 = 0 THEN q ELSE q + 1

\* line 22, scale = 1000.0 / w, as a numerator over ScalePrec
ScaleFactor(w) == (MinWidth * ScalePrec) \div w

\* line 23, cv2.resize(gray, None, fx=scale, fy=scale): dsize is the rounded
\* product of each dimension with the factor
Resize(g, sc) ==
    [g EXCEPT !.w = CvRound(g.w * sc, ScalePrec), !.h = CvRound(g.h * sc, ScalePrec)]

\* lines 20-23
Upscale(g) == IF g.w < MinWidth THEN Resize(g, ScaleFactor(g.w)) ELSE g

\* line 25: GaussianBlur keeps size and channels
GaussianBlur(g) == g

\* lines 27-29: adaptiveThreshold accepts single-channel 8-bit input only
ThresholdFails(g) == g.ch # 1

\* the whole function: ok is FALSE when an exception leaves it (gray.shape on
\* None, or the threshold's input check)
preprocess_image(image) ==
    LET gray == ToGray(image)
    IN IF gray = NoImage THEN [ok |-> FALSE, img |-> NoImage]
       ELSE LET blur == GaussianBlur(Upscale(gray))
            IN IF ThresholdFails(blur) THEN [ok |-> FALSE, img |-> NoImage]
               ELSE [ok |-> TRUE, img |-> blur]

----------------------------------------------------------------------------
(* analyze_report *)

SnippetLen == 200
MaxLen == 204

Ellipsis == <<".", ".", ".">>

KwCritical == <<"c", "r", "i", "t", "i", "c", "a", "l">>
KwAbnormal == <<"a", "b", "n", "o", "r", "m", "a", "l">>
UpperAbnormal == <<"A", "B", "N", "O", "R", "M", "A", "L">>
MixedCritical == <<"C", "r", "i", "t", "i", "c", "a", "l">>

FillChar(i) == IF i % 3 = 0 THEN " " ELSE IF i % 3 = 1 THEN "x" ELSE "N"
Filler(n) == [i \in 1..n |-> FillChar(i)]

\* texts the recognizer may return: n characters, ending in the given word
\* when it fits
TextOf(n, word) ==
    IF n >= Len(word) THEN Filler(n - Len(word)) \o word ELSE Filler(n)

Texts ==
    {TextOf(n, word) : n \in 0..MaxLen,
                       word \in {<<>>, KwCritical, UpperAbnormal, MixedCritical}}

\* str.lower() on the characters in use
LowerChar(c) ==
    CASE c = "A" -> "a" [] c = "B" -> "b" [] c = "C" -> "c" [] c = "L" -> "l"
      [] c = "M" -> "m" [] c = "N" -> "n" [] c = "O" -> "o" [] c = "R" -> "r"
      [] OTHER -> c
Lower(t) == [i \in 1..Len(t) |-> LowerChar(t[i])]

\* word in t
Contains(t, word) ==
    \E i \in 1..(Len(t) - Len(word) + 1) : SubSeq(t, i, i + Len(word) - 1) = word

\* t[:n]
Prefix(t, n) == SubSeq(t, 1, IF Len(t) < n THEN Len(t) ELSE n)

\* line 93
Summary(t) ==
    IF Contains(Lower(t), KwCritical) \/ Contains(Lower(t), KwAbnormal)
    THEN "Critical findings detected" ELSE "Normal findings"

\* variant: the ellipsis already at the limit
SnippetAtLimit(t) == Prefix(t, SnippetLen) \o (IF Len(t) >= SnippetLen THEN Ellipsis ELSE <<>>)

\* line 94
Snippet(t) == Prefix(t, SnippetLen) \o (IF Len(t) > SnippetLen THEN Ellipsis ELSE <<>>)

\* variant: the None check left out
DecodeNeverFails(image) == FALSE

\* line 86
DecodeFailed(image) == image = NoImage

NoReport == [status |-> "none"]
DecodeFailure == [status |-> "ok", success |-> FALSE, message |-> "Unable to decode image"]

----------------------------------------------------------------------------

\* lines 18-24: the model is loaded once, or left None
Init ==
    /\ \E exists \in BOOLEAN, loads \in BOOLEAN :
          model = IF exists /\ loads THEN "loaded" ELSE "None"
    /\ op = "none"
    /\ req = NoRequest
    /\ raw = Unset
    /\ score = Unset
    /\ presp = NoResponse
    /\ pc = "idle"
    /\ img = NoImage
    /\ processed = NoImage
    /\ ppok = "none"
    /\ text = <<>>
    /\ calls = <<>>
    /\ aresp = NoReport

\* POST /predict: the whole handler
PredictRequest ==
    /\ pc = "idle"
    /\ \E hr \in HeartRates, t \in Temperatures, ox \in Oxygens, mo \in ModelOutcomes :
          LET mout == IF model # "None" THEN mo ELSE Unset
              out == predict(model, mout, hr, t, ox)
          IN /\ req' = [hr |-> hr, t |-> t, ox |-> ox, mout |-> mout]
             /\ raw' = out.raw
             /\ score' = out.score
             /\ presp' = out.resp
    /\ op' = "predict"
    /\ pc' = "done"
    /\ UNCHANGED <<model, img, processed, ppok, text, calls, aresp>>

\* POST /analyze-report, lines 82-87: read, decode, and the early return
AnalyzeDecode ==
    /\ pc = "idle"
    /\ \E d \in DecodedImages :
          /\ img' = d
          /\ IF DecodeFailed(d)
             THEN /\ aresp' = DecodeFailure
                  /\ pc' = "done"
             ELSE /\ aresp' = NoReport
                  /\ pc' = "decoded"
    /\ op' = "analyze"
    /\ calls' = <<"imdecode">>
    /\ UNCHANGED <<model, req, raw, score, presp, processed, ppok, text>>

\* line 89
AnalyzePreprocess ==
    /\ pc = "decoded"
    /\ LET out == preprocess_image(img)
       IN /\ processed' = out.img
          /\ IF out.ok
             THEN /\ pc' = "preprocessed"
                  /\ aresp' = aresp
             ELSE /\ pc' = "done"
                  /\ aresp' = [status |-> "error"]
    /\ calls' = Append(calls, "preprocess_image")
    /\ UNCHANGED <<model, op, req, raw, score, presp, img, ppok, text>>

\* line 90: the recognizer is a black box returning some text
AnalyzeRecognize ==
    /\ pc = "preprocessed"
    /\ \E t \in Texts : text' = t
    /\ calls' = Append(calls, "image_to_string")
    /\ pc' = "recognized"
    /\ UNCHANGED <<model, op, req, raw, score, presp, img, processed, ppok, aresp>>

\* lines 93-96
AnalyzeRespond ==
    /\ pc = "recognized"
    /\ aresp' = [status |-> "ok", success |-> TRUE, summary |-> Summary(text),
                 extracted_text |-> Snippet(text)]
    /\ pc' = "done"
    /\ UNCHANGED <<model, op, req, raw, score, presp, img, processed, ppok, text, calls>>

\* a direct call of utils.ocr.preprocess_image on any image
PreprocessCall ==
    /\ pc = "idle"
    /\ \E i \in Images :
          /\ img' = i
          /\ processed' = preprocess_image(i).img
          /\ ppok' = IF preprocess_image(i).ok THEN "returned" ELSE "raised"
    /\ op' = "preprocess"
    /\ calls' = <<"preprocess_image">>
    /\ pc' = "done"
    /\ UNCHANGED <<model, req, raw, score, presp, text, aresp>>

\* the request is over: its values are dropped, the loaded model stays
Return ==
    /\ pc = "done"
    /\ op' = "none"
    /\ req' = NoRequest
    /\ raw' = Unset
    /\ score' = Unset
    /\ presp' = NoResponse
    /\ pc' = "idle"
    /\ img' = NoImage
    /\ processed' = NoImage
    /\ ppok' = "none"
    /\ text' = <<>>
    /\ calls' = <<>>
    /\ aresp' = NoReport
    /\ UNCHANGED model

Next ==
    \/ PredictRequest
    \/ AnalyzeDecode
    \/ AnalyzePreprocess
    \/ AnalyzeRecognize
    \/ AnalyzeRespond
    \/ PreprocessCall
    \/ Return

Spec == Init /\ [][Next]_vars

----------------------------------------------------------------------------
(* Properties *)

PredictReturned == op = "predict" /\ presp.status = "ok"
SmallInputs == ~req.hr.huge /\ ~req.ox.huge /\ req.t.k = "fin"

\* the heuristic of the vital signs, in units of 1/Scale, written out
FormulaValue == (req.hr.v * Scale) \div 2 + req.t.v - (100 - req.ox.v) * Scale

\* C1: the score of every predict response lies in [0, 100]; a raw value below
\* 0 gives 0 and one above 100 gives 100.
C1_ScoreInRange ==
    PredictReturned =>
        /\ score.k = "fin" /\ 0 <= score.v /\ score.v <= 100 * Scale
        /\ 0 <= presp.score /\ presp.score <= 100 * Hundredths
        /\ (raw.k = "ninf" \/ (raw.k = "fin" /\ raw.v < 0)) => presp.score = 0
        /\ (raw.k = "inf" \/ (raw.k = "fin" /\ raw.v > 100 * Scale))
              => presp.score = 100 * Hundredths

C1_Witness ==
    /\ PredictReturned
    /\ raw.k = "fin" /\ raw.v < 0
    /\ presp.score = 0

\* C2: the category is decided by the clamped score with inclusive lower
\* bounds: >= 80 Critical, [60, 80) Urgent, [40, 60) Less-Urgent, < 40
\* Non-Urgent; 80, 60, 40 fall in the higher band and 79.99, 59.99, 39.99 in
\* the lower one.
C2_CategoryBands ==
    PredictReturned =>
        /\ score.k = "fin"
        /\ presp.category \in {"Critical", "Urgent", "Less-Urgent", "Non-Urgent"}
        /\ presp.category = "Critical" <=> score.v >= 80 * Scale
        /\ presp.category = "Urgent" <=> (60 * Scale <= score.v /\ score.v < 80 * Scale)
        /\ presp.category = "Less-Urgent" <=> (40 * Scale <= score.v /\ score.v < 60 * Scale)
        /\ presp.category = "Non-Urgent" <=> score.v < 40 * Scale
        /\ score.v = 80 * Scale - 3 => presp.category = "Urgent"
        /\ score.v = 60 * Scale - 3 => presp.category = "Less-Urgent"
        /\ score.v = 40 * Scale - 3 => presp.category = "Non-Urgent"

C2_Witness ==
    /\ PredictReturned
    /\ score = Fin(80 * Scale)
    /\ presp.category = "Critical"

\* C3: the returned category is the band of the returned (rounded) score
\* under the 80/60/40 thresholds.
C3_CategoryOfReturnedScore ==
    PredictReturned =>
        /\ presp.category = "Critical" <=> presp.score >= 80 * Hundredths
        /\ presp.category = "Urgent"
              <=> (60 * Hundredths <= presp.score /\ presp.score < 80 * Hundredths)
        /\ presp.category = "Less-Urgent"
              <=> (40 * Hundredths <= presp.score /\ presp.score < 60 * Hundredths)
        /\ presp.category = "Non-Urgent" <=> presp.score < 40 * Hundredths

\* C4: when the loaded model's prediction call raises, the outcome of the
\* request is the outcome of the heuristic-only path on the same vital signs.
C4_FailureEqualsHeuristic ==
    (op = "predict" /\ model # "None" /\ req.mout = Raised) =>
        presp = predict("None", Unset, req.hr, req.t, req.ox).resp

C4_Witness ==
    /\ PredictReturned
    /\ model # "None"
    /\ req.mout = Raised
    /\ presp.category = "Urgent"

\* C5: with no model loaded, for all inputs the raw score is
\* heart_rate / 2 + temperature * 10 - (100 - oxygen_saturation) and the
\* response is that value clamped with its category; (80, 37, 98) gives raw
\* 408, score 100, Critical and (500, 1000, 0) gives score 100, Critical.
C5_HeuristicResponse ==
    (op = "predict" /\ model = "None") =>
        /\ presp.status = "ok"
        /\ SmallInputs =>
              /\ raw = Fin(FormulaValue)
              /\ FormulaValue < 0 => presp.score = 0
              /\ FormulaValue > 100 * Scale => presp.score = 100 * Hundredths
              /\ (0 <= FormulaValue /\ FormulaValue <= 100 * Scale) => score = Fin(FormulaValue)
        /\ (req.hr = Small(80) /\ req.t = Fin(37 * TempScale) /\ req.ox = Small(98)) =>
              /\ raw = Fin(408 * Scale)
              /\ presp.score = 100 * Hundredths /\ presp.category = "Critical"
        /\ (req.hr = Small(500) /\ req.t = Fin(1000 * TempScale) /\ req.ox = Small(0)) =>
              presp.score = 100 * Hundredths /\ presp.category = "Critical"

\* the same statement on the requests that return
HeuristicOnReturn ==
    (PredictReturned /\ model = "None") =>
        /\ SmallInputs =>
              /\ raw = Fin(FormulaValue)
              /\ FormulaValue < 0 => presp.score = 0
              /\ FormulaValue > 100 * Scale => presp.score = 100 * Hundredths
              /\ (0 <= FormulaValue /\ FormulaValue <= 100 * Scale) => score = Fin(FormulaValue)
        /\ (req.hr = Small(80) /\ req.t = Fin(37 * TempScale) /\ req.ox = Small(98)) =>
              /\ raw = Fin(408 * Scale)
              /\ presp.score = 100 * Hundredths /\ presp.category = "Critical"

\* C6: every predict request ends by returning a response, whatever the
\* vital signs and whatever the model does.
C6_NoExceptionEscapes == op = "predict" => presp.status = "ok"

\* C7 as stated: when the model returns a non-numeric output the response is
\* score 0, category Non-Urgent.
C7_NonNumericGivesZero ==
    (PredictReturned /\ req.mout = NonNumeric) =>
        presp.score = 0 /\ presp.category = "Non-Urgent"

\* C7 amended: when the model returns a non-numeric output the failed
\* conversion is handled like a failed prediction call: the outcome is the
\* outcome of the heuristic-only path on the same vital signs, and the raw
\* value reaching the clamp is a float.
C7_NonNumericFallsBack ==
    (op = "predict" /\ req.mout = NonNumeric) =>
        /\ presp = predict("None", Unset, req.hr, req.t, req.ox).resp
        /\ presp.status = "ok" => IsFloat(raw)

C7_Witness ==
    /\ PredictReturned
    /\ req.mout = NonNumeric
    /\ presp.score = 100 * Hundredths
    /\ presp.category = "Critical"

\* C8: when decoding fails analyze_report returns the decode-failure response
\* at once, with no preprocessing and no recognition call; a recognition call
\* only ever follows a successful decode and then preprocessing.
C8_DecodeFailureStopsPipeline ==
    op = "analyze" =>
        /\ img = NoImage =>
              /\ pc = "done"
              /\ aresp = DecodeFailure
              /\ calls = <<"imdecode">>
        /\ \A i \in 1..Len(calls) :
              calls[i] = "image_to_string" =>
                  /\ i = 3
                  /\ calls[1] = "imdecode" /\ img # NoImage
                  /\ calls[2] = "preprocess_image"

C8_Witness ==
    /\ op = "analyze"
    /\ img = NoImage
    /\ aresp = DecodeFailure

\* C9: on the success path extracted_text is the text unchanged when it has
\* at most 200 characters, and its first 200 characters followed by "..."
\* (203 characters) when it has more.
C9_Excerpt ==
    (op = "analyze" /\ pc = "done" /\ aresp.status = "ok" /\ aresp.success) =>
        /\ Len(text) <= 200 => aresp.extracted_text = text
        /\ Len(text) > 200 =>
              /\ Len(aresp.extracted_text) = 203
              /\ \A i \in 1..200 : aresp.extracted_text[i] = text[i]
              /\ \A i \in 201..203 : aresp.extracted_text[i] = "."

C9_Witness ==
    /\ op = "analyze" /\ pc = "done" /\ aresp.status = "ok" /\ aresp.success
    /\ Len(text) > 200
    /\ Len(aresp.extracted_text) = 203

\* C10: on a colour or grayscale image preprocess_image returns a
\* single-channel image; a width below 1000 gives a width of at least 1000,
\* both dimensions scaled by 1000 / w, and a width of 1000 or more is kept.
C10_Preprocess ==
    (op = "preprocess" /\ img.ch \in {1, 3, 4}) =>
        /\ ppok = "returned"
        /\ processed.ch = 1
        /\ img.w < 1000 =>
              /\ processed.w >= 1000
              /\ processed.h * img.w - 1000 * img.h <= img.w
              /\ 1000 * img.h - processed.h * img.w <= img.w
        /\ img.w >= 1000 => (processed.w = img.w /\ processed.h = img.h)

C10_Witness ==
    /\ op = "preprocess"
    /\ img.ch = 1
    /\ img.w = 999
    /\ ppok = "returned"
    /\ processed.w >= 1000
    /\ processed.ch = 1

====
